---- MODULE Spec2Model ----
(***************************************************************************)
(* TaskSystem (h_server/task/task_system.py): the dispatch loop of         *)
(* start(), the per-delivery handler _process_event, and stop().           *)
(*                                                                         *)
(* Scheduling is anyio's single-threaded cooperative scheduling: a step of *)
(* the model runs one coroutine from one suspension point (await) to the   *)
(* next.  The queue, the runner class and the clock are the environment:   *)
(* which event arrives, what process_event/init do and whether a queue     *)
(* call answers inside its fail_after deadline are chosen freely.          *)
(*                                                                         *)
(* Cancelling the task group's scope raises the cancellation in the loop   *)
(* and in every handler at the await it is suspended in, unless that await *)
(* lies inside a shielded scope (fail_after(..., shield=True)) or has      *)
(* completed already: a task whose await completed before the cancellation *)
(* reached it, or completes without suspending, goes on normally.  A       *)
(* handler scheduled by start_soon runs from its first statement when the  *)
(* scheduler picks it, which may be after the loop has received again.  An *)
(* exception that leaves a handler ends the handler's task; the task group *)
(* takes note of it and cancels its scope in a later step.                 *)
(* Time is counted in seconds by Tick, for the handlers that are asleep.   *)
(***************************************************************************)
EXTENDS Naturals, FiniteSets

\* ---------------------------------------------------------------- bounds
NumTasks == 2
\* Deliveries the queue makes of events of any task.
MaxDeliveries == 2
\* Deliveries the queue makes after those, each of the task of the delivery
\* before it (SpecRepeat).
MaxRepeats == 1
NumSystems == 2
NumCallers == 3

\* self._retry_delay, in seconds (line 26).
RetryDelay == 5

Tasks == 1..NumTasks
\* ack_id of a delivery; a runner instance is named by the ack_id of the
\* delivery whose receipt constructed it.
Handles == 1..(MaxDeliveries + MaxRepeats)
NoRunner == 0
NoTask == 0

\* TaskSystem instances that can be installed as the default, and the callers
\* of get_task_system.
Systems == 1..NumSystems
NoSystem == 0
Callers == 1..NumCallers

VARIABLES
  stop_event,     \* self._stop_event: "none" | "unset" | "set"
  tg,             \* self._tg: "none" | "open"
  cancel_called,  \* self._tg.cancel_scope.cancel_called
  runners,        \* self._runners: task id -> runner instance (NoRunner = absent)
  task_id,        \* local of start(), a cell shared with every _process_event closure
  runner,         \* local of start(), a cell shared with every _process_event closure
  lpc,            \* where start() is: "stopped" | "get" | "init" | "join"
  cur,            \* ack_id received by the loop and not yet launched (0 = none)
  fault,          \* an exception is pending in the task group: start() will raise
  nextAck,        \* next ack_id the queue hands out
  hpc,            \* per delivery: where its handler is
  hev,            \* per delivery: event.task_id (NoTask = not received yet)
  hrun,           \* per delivery: runner the loop resolved for it
  hused,          \* per delivery: runner its handler called process_event on
  hout,           \* per delivery: how process_event ended
  hexc,           \* per delivery: exception the handler ended with
  hdel,           \* per delivery: <<key, instance>> its handler deleted from runners
  acks,           \* per delivery: event_queue.ack calls
  noacks,         \* per delivery: event_queue.no_ack calls
  slept,          \* per delivery: time spent in sleep(self._retry_delay)
  outer,          \* the scope start() was called in has been cancelled
  slot,           \* module global _default_task_system (NoSystem = None)
  lastSet,        \* argument of the latest set_task_system call
  got             \* per caller: what its latest get_task_system call gave

vars == <<stop_event, tg, cancel_called, runners, task_id, runner, lpc, cur,
          fault, nextAck, hpc, hev, hrun, hused,
          hout, hexc, hdel, acks, noacks, slept, outer, slot, lastSet, got>>

loopVars == <<task_id, runner, lpc, cur, nextAck>>
lifeVars == <<stop_event, tg, outer>>
accessVars == <<slot, lastSet, got>>
handlerVars == <<hpc, hused, hout, hexc, hdel, acks, noacks, slept>>

NoDel == <<NoTask, NoRunner>>
Ended == {"done", "cancelled", "raised"}
Running == {"scheduled", "proc", "ack_ok", "sleep", "noack_retry", "ack_err",
            "noack_unk", "noack_cancel"}

\* What a get_task_system call gave its caller: the exception it raised and
\* the value it returned.  NotCalled stands for a caller that has made no call.
NotCalled == [raised |-> "none", value |-> NoSystem]

\* TaskSystem.__init__, and the module global of line 134.
Init ==
  /\ stop_event = "none"
  /\ tg = "none"
  /\ cancel_called = FALSE
  /\ runners = [t \in Tasks |-> NoRunner]
  /\ task_id = NoTask
  /\ runner = NoRunner
  /\ lpc = "stopped"
  /\ cur = 0
  /\ fault = FALSE
  /\ nextAck = 1
  /\ hpc = [h \in Handles |-> "none"]
  /\ hev = [h \in Handles |-> NoTask]
  /\ hrun = [h \in Handles |-> NoRunner]
  /\ hused = [h \in Handles |-> NoRunner]
  /\ hout = [h \in Handles |-> "none"]
  /\ hexc = [h \in Handles |-> "none"]
  /\ hdel = [h \in Handles |-> NoDel]
  /\ acks = [h \in Handles |-> 0]
  /\ noacks = [h \in Handles |-> 0]
  /\ slept = [h \in Handles |-> 0]
  /\ outer = FALSE
  /\ slot = NoSystem
  /\ lastSet = NoSystem
  /\ got = [c \in Callers |-> NotCalled]

\* The task group's scope is cancelled, by stop() or by the failure of one of
\* its tasks, or a scope around the start() call is: either way the
\* cancellation is raised at every await of the loop and the handlers that no
\* shield covers.
Cancelling == cancel_called \/ outer

\* ------------------------------------------------------------ start()
\* The fields start() and stop() read and write.
Life == [stop_event |-> stop_event, tg |-> tg,
         cancel_called |-> cancel_called, cancelled |-> FALSE]

\* A start() without the assertions of lines 54-55.
StartResultNoAssert(s) ==
  [stop_event |-> "unset", tg |-> "open", cancel_called |-> FALSE,
   raised |-> "none"]

\* Lines 54-61 as a function of the fields start() reads and writes before its
\* first await; `raised` is the exception the call ends with before it gets
\* there.  The assertions stand before the try, so no finally clause runs.
StartResult(s) ==
  IF s.stop_event = "none" /\ s.tg = "none"
    THEN [stop_event |-> "unset", tg |-> "open", cancel_called |-> FALSE,
          raised |-> "none"]
    ELSE [stop_event |-> s.stop_event, tg |-> s.tg,
          cancel_called |-> s.cancel_called, raised |-> "AssertionError"]

\* Lines 54-61: the assertions, the new Event, entering the task group.  No
\* await lies between them, so the step ends at the first event_queue.get().
Start ==
  /\ StartResult(Life).raised = "none"
  /\ stop_event' = StartResult(Life).stop_event
  /\ tg' = StartResult(Life).tg
  /\ cancel_called' = StartResult(Life).cancel_called
  /\ outer' = FALSE
  /\ lpc' = "get"
  /\ UNCHANGED <<runners, task_id, runner, cur, fault, nextAck, hev, hrun>>
  /\ UNCHANGED handlerVars
  /\ UNCHANGED accessVars

\* Lines 54-55: start() is called on an instance whose start() is running.
\* The assertion fails before anything is written or awaited.
StartAgain ==
  /\ StartResult(Life).raised = "AssertionError"
  /\ stop_event' = StartResult(Life).stop_event
  /\ tg' = StartResult(Life).tg
  /\ cancel_called' = StartResult(Life).cancel_called
  /\ UNCHANGED <<outer, runners, fault, hev, hrun>>
  /\ UNCHANGED loopVars
  /\ UNCHANGED handlerVars
  /\ UNCHANGED accessVars

\* Line 62: the loop condition, evaluated after a launch.
LoopTest == IF stop_event = "set" THEN "join" ELSE "get"

\* Line 65: `task_id in self._runners`, which decides between reuse and
\* construction.
InRunners(t) == runners[t] # NoRunner

\* Lines 84, 107: whether `del self._runners[key]` finds its key.
HasRunner(k) == runners[k] # NoRunner

\* Line 117: tg.start_soon(_process_event, ack_id, event).
Launch(h) == [hpc EXCEPT ![h] = "scheduled"]

\* Lines 63-77, 117: one delivery comes out of event_queue.get(): the await
\* has completed, whether or not a cancellation has been requested since.
\* With a registered runner the handler is launched in the same step;
\* otherwise the runner is constructed and runner.init() is called: it
\* suspends the loop ("suspends"), or it ends without suspending and the step
\* goes on to register and launch ("returns") or leaves the loop with its
\* exception ("raises").
Recv(t, init) ==
  /\ lpc = "get"
  /\ nextAck \in Handles
  /\ nextAck' = nextAck + 1
  /\ hev' = [hev EXCEPT ![nextAck] = t]
  /\ task_id' = t
  /\ IF InRunners(t)
       THEN /\ init = "suspends"
            /\ runner' = runners[t]
            /\ hrun' = [hrun EXCEPT ![nextAck] = runners[t]]
            /\ hpc' = Launch(nextAck)
            /\ lpc' = LoopTest
            /\ cur' = cur
            /\ UNCHANGED <<runners, cancel_called, fault>>
       ELSE /\ runner' = nextAck
            /\ hrun' = [hrun EXCEPT ![nextAck] = nextAck]
            /\ \/ /\ init = "suspends"
                  /\ hpc' = hpc
                  /\ lpc' = "init"
                  /\ cur' = nextAck
                  /\ UNCHANGED <<runners, cancel_called, fault>>
               \/ /\ init = "returns"
                  /\ runners' = [runners EXCEPT ![t] = nextAck]
                  /\ hpc' = Launch(nextAck)
                  /\ lpc' = LoopTest
                  /\ cur' = cur
                  /\ UNCHANGED <<cancel_called, fault>>
               \/ /\ init = "raises"
                  /\ fault' = TRUE
                  /\ cancel_called' = TRUE
                  /\ hpc' = hpc
                  /\ lpc' = "join"
                  /\ cur' = cur
                  /\ UNCHANGED runners
  /\ UNCHANGED lifeVars
  /\ UNCHANGED <<hused, hout, hexc, hdel, acks, noacks, slept>>
  /\ UNCHANGED accessVars

\* A delivery of task t is outstanding: handed out and not yet finalised.
InFlight(t) == \E h \in Handles : hev[h] = t /\ hpc[h] \notin Ended

\* Task identifiers are opaque to the dispatcher, so the tasks it has not met
\* are interchangeable: a new task takes the least identifier not in use.
Known == {t \in Tasks : runners[t] # NoRunner \/ \E h \in Handles : hev[h] = t}

Arrives(t) == t \in Known \/ \A u \in Tasks \ Known : t <= u

\* What runner.init() may do when it is called.
InitOutcomes == {"suspends", "returns", "raises"}

\* Any event may arrive at any time.
Receive(t) ==
  /\ Arrives(t)
  /\ nextAck <= MaxDeliveries
  /\ \E init \in InitOutcomes : Recv(t, init)

\* Any event may arrive at any time, and after the last of them the queue
\* delivers further events of the task it delivered last: events of one task
\* identifier back to back.
ReceiveRepeat(t) ==
  /\ Arrives(t)
  /\ nextAck > MaxDeliveries => hev[nextAck - 1] = t
  /\ \E init \in InitOutcomes : Recv(t, init)

\* The queue keeps to the contract the dispatcher asks of it: at most one
\* outstanding delivery per task identifier.
ReceiveSerial(t) ==
  /\ Arrives(t)
  /\ nextAck <= MaxDeliveries
  /\ ~InFlight(t)
  /\ \E init \in InitOutcomes : Recv(t, init)

\* A delivery of task t is unacknowledged: handed out, and neither ack nor
\* no_ack has been called for it yet.
Unacked(t) == \E h \in Handles : hev[h] = t /\ acks[h] + noacks[h] = 0

\* The queue hands out a task's next event as soon as the previous delivery
\* of that task has been given to ack or no_ack, which may be before that
\* call has returned to the handler.
ReceiveAcked(t) ==
  /\ Arrives(t)
  /\ nextAck <= MaxDeliveries
  /\ ~Unacked(t)
  /\ \E init \in InitOutcomes : Recv(t, init)

\* Lines 75-77, 117: runner.init() returned; register and launch.
InitDone ==
  /\ lpc = "init"
  /\ runners' = [runners EXCEPT ![task_id] = runner]
  /\ hpc' = Launch(cur)
  /\ cur' = 0
  /\ lpc' = LoopTest
  /\ UNCHANGED <<task_id, runner, nextAck, cancel_called, fault, hev, hrun>>
  /\ UNCHANGED lifeVars
  /\ UNCHANGED <<hused, hout, hexc, hdel, acks, noacks, slept>>
  /\ UNCHANGED accessVars

\* Line 75: runner.init() raised.  The exception leaves the loop, the task
\* group cancels its scope and waits for the handlers (line 60).
InitFail ==
  /\ lpc = "init"
  /\ fault' = TRUE
  /\ cancel_called' = TRUE
  /\ cur' = 0
  /\ lpc' = "join"
  /\ UNCHANGED <<runners, task_id, runner, nextAck, hev, hrun>>
  /\ UNCHANGED lifeVars
  /\ UNCHANGED handlerVars
  /\ UNCHANGED accessVars

\* Lines 63, 75: a requested cancellation is raised in the loop at the await
\* it is suspended in; a delivery waiting for init() is dropped.  The
\* cancellation leaves the body of the task group (line 60), and the task
\* group cancels its own scope on any exception that does so.
LoopCancelled ==
  /\ lpc \in {"get", "init"}
  /\ Cancelling
  /\ cancel_called' = TRUE
  /\ cur' = 0
  /\ lpc' = "join"
  /\ UNCHANGED <<runners, task_id, runner, nextAck, fault, hev, hrun>>
  /\ UNCHANGED lifeVars
  /\ UNCHANGED handlerVars
  /\ UNCHANGED accessVars

\* A handler has ended with an exception the task group has not yet taken
\* note of.
PendingFault == \E h \in Handles : hpc[h] = "raised" /\ ~fault

\* Lines 60, 117: the task group takes note that a handler it started has
\* ended with an exception: start() will raise.  It cancels its scope unless
\* the scope is cancelled in effect already, by itself or by a scope around
\* the start() call.
TaskDone ==
  /\ PendingFault
  /\ fault' = TRUE
  /\ cancel_called' = IF Cancelling THEN cancel_called ELSE TRUE
  /\ UNCHANGED <<runners, hev, hrun>>
  /\ UNCHANGED loopVars
  /\ UNCHANGED lifeVars
  /\ UNCHANGED handlerVars
  /\ UNCHANGED accessVars

\* The records of a call's handlers, dropped when the call is over.
NoHandlers ==
  /\ hpc' = [h \in Handles |-> "none"]
  /\ hev' = [h \in Handles |-> NoTask]
  /\ hrun' = [h \in Handles |-> NoRunner]
  /\ hused' = [h \in Handles |-> NoRunner]
  /\ hout' = [h \in Handles |-> "none"]
  /\ hexc' = [h \in Handles |-> "none"]
  /\ hdel' = [h \in Handles |-> NoDel]
  /\ acks' = [h \in Handles |-> 0]
  /\ noacks' = [h \in Handles |-> 0]
  /\ slept' = [h \in Handles |-> 0]

\* An exit whose finally clause forgets the task group.
ExitKeepsGroup ==
  /\ lpc = "join"
  /\ \A h \in Handles : hpc[h] \notin Running
  /\ ~PendingFault
  /\ tg' = tg
  /\ stop_event' = "none"
  /\ cancel_called' = FALSE
  /\ outer' = FALSE
  /\ fault' = FALSE
  /\ lpc' = "stopped"
  /\ task_id' = NoTask
  /\ runner' = NoRunner
  /\ NoHandlers
  /\ UNCHANGED <<runners, cur, nextAck>>
  /\ UNCHANGED accessVars

\* Lines 118-125: every handler has ended, the task group exits; finally.
\* The call's locals and its handlers are gone with it: their records are
\* dropped, the registry stays.
Exit ==
  /\ lpc = "join"
  /\ \A h \in Handles : hpc[h] \notin Running
  /\ ~PendingFault
  /\ tg' = "none"
  /\ stop_event' = "none"
  /\ cancel_called' = FALSE
  /\ outer' = FALSE
  /\ fault' = FALSE
  /\ lpc' = "stopped"
  /\ task_id' = NoTask
  /\ runner' = NoRunner
  /\ NoHandlers
  /\ UNCHANGED <<runners, cur, nextAck>>
  /\ UNCHANGED accessVars

\* Lines 118-119: a scope around the start() call is cancelled by its owner.
\* The cancellation reaches the loop and the handlers like that of the task
\* group's own scope, and start() will raise it once the handlers have ended.
OuterCancel ==
  /\ lpc # "stopped"
  /\ ~outer
  /\ outer' = TRUE
  /\ UNCHANGED <<stop_event, tg, cancel_called, runners, fault, hev, hrun>>
  /\ UNCHANGED loopVars
  /\ UNCHANGED handlerVars
  /\ UNCHANGED accessVars

\* ------------------------------------------------------------- stop()
\* A stop() that sets the stop signal and leaves the task group alone.
StopResultFlagOnly(s) ==
  [stop_event |-> IF s.stop_event # "none" THEN "set" ELSE s.stop_event,
   tg |-> s.tg,
   cancel_called |-> s.cancel_called,
   cancelled |-> FALSE]

\* A stop() that cancels the task group whether or not it is cancelled already.
StopResultNoGuard(s) ==
  [stop_event |-> IF s.stop_event # "none" THEN "set" ELSE s.stop_event,
   tg |-> s.tg,
   cancel_called |-> IF s.tg # "none" THEN TRUE ELSE s.cancel_called,
   cancelled |-> s.tg # "none"]

\* Lines 127-131 as a function of the fields stop() reads and writes;
\* `cancelled` tells whether this call invoked cancel_scope.cancel().
StopResult(s) ==
  [stop_event |-> IF s.stop_event # "none" THEN "set" ELSE s.stop_event,
   tg |-> s.tg,
   cancel_called |-> IF s.tg # "none" /\ ~s.cancel_called
                       THEN TRUE ELSE s.cancel_called,
   cancelled |-> s.tg # "none" /\ ~s.cancel_called]

Stop ==
  /\ stop_event' = StopResult(Life).stop_event
  /\ cancel_called' = StopResult(Life).cancel_called
  /\ UNCHANGED <<tg, outer, runners, fault, hev, hrun>>
  /\ UNCHANGED loopVars
  /\ UNCHANGED handlerVars
  /\ UNCHANGED accessVars

\* ---------------------------------------------------- _process_event
\* A handler whose queue calls name the delivery the loop received last.
AckIdLatest(h) == nextAck - 1

\* Lines 79, 86, 92, 102, 106, 115: the handle a handler gives to ack and
\* no_ack is its own parameter ack_id, bound when start_soon launched it.
AckId(h) == h

\* Lines 79-81: the handler starts and calls runner.process_event(event).
\* `runner` is the enclosing function's variable, read when the call is made.
UsedRunner(h) == runner

HandlerStart(h) ==
  /\ hpc[h] = "scheduled"
  /\ hpc' = [hpc EXCEPT ![h] = "proc"]
  /\ hused' = [hused EXCEPT ![h] = UsedRunner(h)]
  /\ UNCHANGED <<runners, cancel_called, fault, hev, hrun, hout, hexc, hdel,
                 acks, noacks, slept>>
  /\ UNCHANGED loopVars
  /\ UNCHANGED lifeVars
  /\ UNCHANGED accessVars

\* Lines 84, 107: the key of `del self._runners[task_id]`.  `task_id` is the
\* enclosing function's variable, read when the statement runs.
DelKey(h) == task_id

\* Lines 81-86: process_event returned.  finished: delete, then ack; a missing
\* key raises KeyError inside the try, which line 109 turns into a no_ack.
ProcessReturn(h, finished) ==
  /\ hpc[h] = "proc"
  /\ hout' = [hout EXCEPT ![h] = IF finished THEN "finished" ELSE "unfinished"]
  /\ IF finished /\ ~HasRunner(DelKey(h))
       THEN /\ noacks' = [noacks EXCEPT ![AckId(h)] = @ + 1]
            /\ hpc' = [hpc EXCEPT ![h] = "noack_unk"]
            /\ UNCHANGED <<runners, hdel, acks>>
       ELSE /\ acks' = [acks EXCEPT ![AckId(h)] = @ + 1]
            /\ hpc' = [hpc EXCEPT ![h] = "ack_ok"]
            /\ runners' = IF finished
                            THEN [runners EXCEPT ![DelKey(h)] = NoRunner]
                            ELSE runners
            /\ hdel' = IF finished
                         THEN [hdel EXCEPT ![h] = <<DelKey(h), runners[DelKey(h)]>>]
                         ELSE hdel
            /\ UNCHANGED noacks
  /\ UNCHANGED <<cancel_called, fault, hev, hrun, hused, hexc, slept>>
  /\ UNCHANGED loopVars
  /\ UNCHANGED lifeVars
  /\ UNCHANGED accessVars

\* Lines 94-115: process_event raised.  "retry": TaskError with retry set, the
\* handler enters sleep(self._retry_delay); "noretry": TaskError without it,
\* ack is called; "unknown": any other Exception, no_ack is called.
ProcessRaise(h, kind) ==
  /\ hpc[h] = "proc"
  /\ hout' = [hout EXCEPT ![h] = kind]
  /\ hpc' = [hpc EXCEPT ![h] = CASE kind = "retry" -> "sleep"
                                  [] kind = "noretry" -> "ack_err"
                                  [] OTHER -> "noack_unk"]
  /\ acks' = [acks EXCEPT ![AckId(h)] = IF kind = "noretry" THEN @ + 1 ELSE @]
  /\ noacks' = [noacks EXCEPT ![AckId(h)] = IF kind = "unknown" THEN @ + 1 ELSE @]
  /\ UNCHANGED <<runners, cancel_called, fault, hev, hrun, hused, hexc, hdel,
                 slept>>
  /\ UNCHANGED loopVars
  /\ UNCHANGED lifeVars
  /\ UNCHANGED accessVars

\* Lines 90-92: the cancelled scope raises the cancellation inside
\* process_event; the handler calls no_ack under a shielded deadline.
ProcessCancelled(h) ==
  /\ hpc[h] = "proc"
  /\ Cancelling
  /\ hout' = [hout EXCEPT ![h] = "cancel"]
  /\ hpc' = [hpc EXCEPT ![h] = "noack_cancel"]
  /\ noacks' = [noacks EXCEPT ![AckId(h)] = @ + 1]
  /\ UNCHANGED <<runners, cancel_called, fault, hev, hrun, hused, hexc, hdel,
                 acks, slept>>
  /\ UNCHANGED loopVars
  /\ UNCHANGED lifeVars
  /\ UNCHANGED accessVars

\* Time passes for every handler inside sleep(self._retry_delay) (line 101).
Tick ==
  /\ \E h \in Handles : hpc[h] = "sleep" /\ slept[h] < RetryDelay
  /\ slept' = [h \in Handles |->
                 IF hpc[h] = "sleep" /\ slept[h] < RetryDelay
                   THEN slept[h] + 1 ELSE slept[h]]
  /\ UNCHANGED <<runners, cancel_called, fault, hev, hrun, hpc, hused, hout,
                 hexc, hdel, acks, noacks>>
  /\ UNCHANGED loopVars
  /\ UNCHANGED lifeVars
  /\ UNCHANGED accessVars

\* A sleep outside the shield: it ends as soon as the scope is cancelled.
SleepOverOrCancelled(h) == slept[h] >= RetryDelay \/ Cancelling

\* Line 101: sleep(self._retry_delay) returns once the delay has passed.  The
\* scope of line 99 is shielded, so a cancelled task group does not end it.
SleepOver(h) == slept[h] >= RetryDelay

\* Lines 101-102: the sleep is over, no_ack is called.
SleepDone(h) ==
  /\ hpc[h] = "sleep"
  /\ SleepOver(h)
  /\ hpc' = [hpc EXCEPT ![h] = "noack_retry"]
  /\ noacks' = [noacks EXCEPT ![AckId(h)] = @ + 1]
  /\ UNCHANGED <<runners, cancel_called, fault, hev, hrun, hused, hout, hexc,
                 hdel, acks, slept>>
  /\ UNCHANGED loopVars
  /\ UNCHANGED lifeVars
  /\ UNCHANGED accessVars

\* A handler that ends normally after the no_ack of the cancellation path.
AfterCancelNoAckReturn == "done"

\* Line 93: what the handler does once the no_ack of the cancellation path
\* has returned: `raise e`.
AfterCancelNoAck == "cancelled"

\* Lines 86-89, 92-93, 102, 115: the queue call of a path that ends with it
\* returned inside its deadline.
QueueDone(h) ==
  /\ hpc[h] \in {"ack_ok", "noack_retry", "noack_unk", "noack_cancel"}
  /\ hpc' = [hpc EXCEPT ![h] = IF hpc[h] = "noack_cancel"
                                 THEN AfterCancelNoAck ELSE "done"]
  /\ hexc' = [hexc EXCEPT ![h] = IF hpc[h] = "noack_cancel"
                                   /\ AfterCancelNoAck = "cancelled"
                                   THEN "Cancelled" ELSE @]
  /\ UNCHANGED <<runners, cancel_called, fault, hev, hrun, hused, hout, hdel,
                 acks, noacks, slept>>
  /\ UNCHANGED loopVars
  /\ UNCHANGED lifeVars
  /\ UNCHANGED accessVars

\* Lines 106-108: the ack of the no-retry path returned; the delete follows.
\* A missing key raises KeyError inside the except clause: it leaves the
\* handler and ends its task (TaskDone follows).
ErrAckDone(h) ==
  /\ hpc[h] = "ack_err"
  /\ IF HasRunner(DelKey(h))
       THEN /\ runners' = [runners EXCEPT ![DelKey(h)] = NoRunner]
            /\ hdel' = [hdel EXCEPT ![h] = <<DelKey(h), runners[DelKey(h)]>>]
            /\ hpc' = [hpc EXCEPT ![h] = "done"]
            /\ UNCHANGED <<hexc, fault, cancel_called>>
       ELSE /\ hpc' = [hpc EXCEPT ![h] = "raised"]
            /\ hexc' = [hexc EXCEPT ![h] = "KeyError"]
            /\ UNCHANGED <<runners, hdel, fault, cancel_called>>
  /\ UNCHANGED <<hev, hrun, hused, hout, acks, noacks, slept>>
  /\ UNCHANGED loopVars
  /\ UNCHANGED lifeVars
  /\ UNCHANGED accessVars

\* Line 82: the deadline of the success path ran out before ack returned.
\* fail_after raises TimeoutError inside the try; line 109 catches it and
\* calls no_ack (line 115).
AckTimeout(h) ==
  /\ hpc[h] = "ack_ok"
  /\ hpc' = [hpc EXCEPT ![h] = "noack_unk"]
  /\ noacks' = [noacks EXCEPT ![AckId(h)] = @ + 1]
  /\ UNCHANGED <<runners, cancel_called, fault, hev, hrun, hused, hout, hexc,
                 hdel, acks, slept>>
  /\ UNCHANGED loopVars
  /\ UNCHANGED lifeVars
  /\ UNCHANGED accessVars

\* Lines 91, 99, 105, 114: the deadline of a queue call made inside an except
\* clause ran out.  TimeoutError leaves the handler and ends its task
\* (TaskDone follows).
FinalTimeout(h) ==
  /\ hpc[h] \in {"noack_retry", "noack_unk", "noack_cancel", "ack_err"}
  /\ hpc' = [hpc EXCEPT ![h] = "raised"]
  /\ hexc' = [hexc EXCEPT ![h] = "TimeoutError"]
  /\ UNCHANGED <<runners, fault, cancel_called, hev, hrun, hused, hout, hdel, acks, noacks, slept>>
  /\ UNCHANGED loopVars
  /\ UNCHANGED lifeVars
  /\ UNCHANGED accessVars

\* ------------------------------------------------ the default instance
\* A set_task_system that keeps the instance installed first.
SetSlotOnce(old, ts) == IF old = NoSystem THEN ts ELSE old

\* Line 146: _default_task_system = task_system.
SetSlot(old, ts) == ts

\* Lines 143-146: set_task_system(task_system).
SetTaskSystem(ts) ==
  /\ slot' = SetSlot(slot, ts)
  /\ lastSet' = ts
  /\ UNCHANGED <<got, stop_event, tg, outer, cancel_called, runners, fault,
                 hev, hrun>>
  /\ UNCHANGED loopVars
  /\ UNCHANGED handlerVars

\* Lines 137-140 as a function of the global: the assertion, then the return.
GetResult(s) ==
  IF s = NoSystem THEN [raised |-> "AssertionError", value |-> NoSystem]
                  ELSE [raised |-> "none", value |-> s]

\* Lines 137-140: get_task_system(), called by caller c.
GetTaskSystem(c) ==
  /\ got' = [got EXCEPT ![c] = GetResult(slot)]
  /\ UNCHANGED <<slot, lastSet, stop_event, tg, outer, cancel_called, runners,
                 fault, hev, hrun>>
  /\ UNCHANGED loopVars
  /\ UNCHANGED handlerVars

\* ------------------------------------------------------ specifications
Handler(h) ==
  \/ HandlerStart(h)
  \/ \E finished \in BOOLEAN : ProcessReturn(h, finished)
  \/ \E kind \in {"retry", "noretry", "unknown"} : ProcessRaise(h, kind)
  \/ ProcessCancelled(h)
  \/ SleepDone(h)
  \/ QueueDone(h)
  \/ ErrAckDone(h)
  \/ AckTimeout(h)
  \/ FinalTimeout(h)

Step ==
  \/ Start
  \/ StartAgain
  \/ InitDone
  \/ InitFail
  \/ LoopCancelled
  \/ TaskDone
  \/ Exit
  \/ Stop
  \/ OuterCancel
  \/ Tick
  \/ \E h \in Handles : Handler(h)

\* Any event may arrive at any time.
Next == Step \/ \E t \in Tasks : Receive(t)

Spec == Init /\ [][Next]_vars

\* The queue hands out a task's next event only once the previous delivery
\* of that task has been finalised.
NextSerial == Step \/ \E t \in Tasks : ReceiveSerial(t)

SpecSerial == Init /\ [][NextSerial]_vars

\* At most one unacknowledged delivery per task identifier.
NextAcked == Step \/ \E t \in Tasks : ReceiveAcked(t)

SpecAcked == Init /\ [][NextAcked]_vars

\* Any event may arrive at any time, followed by repeats of the last task.
NextRepeat == Step \/ \E t \in Tasks : ReceiveRepeat(t)

SpecRepeat == Init /\ [][NextRepeat]_vars

\* The module-level accessors on their own: instances are installed and
\* looked up in any order.
NextSlot ==
  \/ \E ts \in Systems : SetTaskSystem(ts)
  \/ \E c \in Callers : GetTaskSystem(c)

SpecSlot == Init /\ [][NextSlot]_vars

\* What the scheduler owes a handler: a task that can run is run.  A launched
\* handler starts, a pending cancellation is raised at its await, and it goes
\* on when its sleep is over.
Progress(h) == HandlerStart(h) \/ ProcessCancelled(h) \/ SleepDone(h)

\* Lines 82, 91, 99, 105, 114: every queue call is made under fail_after, so
\* it returns or its deadline runs out.
QueueAnswers(h) ==
  QueueDone(h) \/ ErrAckDone(h) \/ AckTimeout(h) \/ FinalTimeout(h)

\* The scheduler runs what can run and the clock moves on.  Nothing is owed by
\* the environment: no event need arrive, init() and process_event need not
\* return, stop() need not be called.
Fairness ==
  /\ WF_vars(LoopCancelled)
  /\ WF_vars(TaskDone)
  /\ WF_vars(Exit)
  /\ WF_vars(Tick)
  /\ \A h \in Handles : WF_vars(Progress(h)) /\ WF_vars(QueueAnswers(h))

SpecFair == Init /\ [][Next]_vars /\ Fairness

\* ---------------------------------------------------------- properties
Received(h) == hev[h] # NoTask

\* The runner the loop resolved for delivery h is the one registered under
\* the task of h's event.
Registered(h) == runners[hev[h]] = hrun[h]

\* The runner the loop resolved for delivery h is still registered, or a
\* later event of the same task has brought that task to its end (finished,
\* or failed for good), which is when a runner is meant to go.
Kept(h) ==
  \/ Registered(h)
  \/ \E g \in Handles \ {h} :
       hev[g] = hev[h] /\ hout[g] \in {"finished", "noretry"}

\* start() is about to leave the task group: the loop is over and no handler
\* is left.
Exiting ==
  lpc = "join" /\ ~PendingFault /\ \A h \in Handles : hpc[h] \notin Running

\* C1: when start() exits, every delivery the loop received has had exactly
\* one queue call, an ack or a no_ack.
C1_OneOutcomePerDelivery ==
  Exiting => \A h \in Handles : Received(h) => acks[h] + noacks[h] = 1

\* C2: an event whose process_event returned finished=true has its task's
\* runner out of the registry from the moment ack is called, and ack is
\* called for it (and no_ack is not, unless the ack ran into its deadline).
C2_FinishedRemovedThenAcked ==
  \A h \in Handles :
    hout[h] = "finished" => acks[h] = 1 /\ ~Registered(h)

\* C3: an event that failed with a non-retryable TaskError is acked once,
\* never no-acked, and once its handler has ended (no deadline having run
\* out) the handler has removed the runner of the event's task, and no other
\* handler has removed it too.
C3_NoRetryAckedAndRemoved ==
  \A h \in Handles :
    hout[h] = "noretry" =>
      /\ acks[h] = 1
      /\ noacks[h] = 0
      /\ (hpc[h] \in Ended /\ hexc[h] # "TimeoutError" =>
            /\ hdel[h] = <<hev[h], hrun[h]>>
            /\ ~Registered(h)
            /\ \A g \in Handles \ {h} : hdel[g] # hdel[h])

\* C4: an event that failed with a retryable TaskError is never acked, is
\* no-acked at most once and only after the whole retry delay, and when its
\* handler has ended it has been no-acked and its task's runner is still
\* registered (until an event of that task ends the task).
C4_RetryNoAckAfterDelay ==
  \A h \in Handles :
    hout[h] = "retry" =>
      /\ acks[h] = 0
      /\ noacks[h] <= 1
      /\ (noacks[h] = 1 => slept[h] >= RetryDelay)
      /\ (hpc[h] \in Ended => noacks[h] = 1 /\ Kept(h))

\* C5: an event whose process_event returned finished=false is acked exactly
\* once and its task's runner stays registered whatever the handlers of other
\* tasks do (until an event of that task ends the task).
C5_UnfinishedAckedAndKept ==
  \A h \in Handles :
    hout[h] = "unfinished" => acks[h] = 1 /\ Kept(h)

\* C6: an event that failed with an error that is neither a TaskError nor a
\* cancellation is no-acked once without any wait, is never acked, and its
\* task's runner stays registered (until an event of that task ends the task).
C6_UnknownNoAckedAndKept ==
  \A h \in Handles :
    hout[h] = "unknown" =>
      /\ noacks[h] = 1
      /\ acks[h] = 0
      /\ slept[h] = 0
      /\ Kept(h)

\* C7 as stated: a handler cancelled inside process_event calls no_ack once
\* and ack never, deletes nothing from the registry, and ends by raising the
\* cancellation.
C7_CancelledAlwaysPropagates ==
  \A h \in Handles :
    hout[h] = "cancel" =>
      /\ noacks[h] = 1
      /\ acks[h] = 0
      /\ hdel[h] = NoDel
      /\ hpc[h] \in {"noack_cancel", "cancelled"}
      /\ (hpc[h] = "cancelled" => hexc[h] = "Cancelled")

\* C7: a handler cancelled inside process_event calls no_ack once and ack
\* never, deletes nothing from the registry, and never ends normally: it ends
\* by raising the cancellation, or by raising TimeoutError when the no_ack
\* did not return inside its deadline.
C7_CancelledNoAckThenRaise ==
  \A h \in Handles :
    hout[h] = "cancel" =>
      /\ noacks[h] = 1
      /\ acks[h] = 0
      /\ hdel[h] = NoDel
      /\ hpc[h] \in {"noack_cancel", "cancelled", "raised"}
      /\ (hpc[h] = "cancelled" => hexc[h] = "Cancelled")
      /\ (hpc[h] = "raised" => hexc[h] = "TimeoutError")

\* stop() was called while a handler was inside process_event, and that
\* handler has ended with the cancellation.
C7_Witness ==
  \E h \in Handles :
    /\ stop_event = "set"
    /\ hout[h] = "cancel"
    /\ hpc[h] = "cancelled"
    /\ noacks[h] = 1

\* C8: no handler ends with the KeyError of a delete whose key is absent (the
\* errors of the runner never leave a handler in any case: lines 94-115).
C8_NoKeyErrorLeavesHandler ==
  \A h \in Handles : hexc[h] # "KeyError"

\* Runner instances constructed by the current start() call that were thrown
\* away because init() did not return.
Discarded(r) == hrun[r] = r /\ hpc[r] = "none" /\ cur # r

\* Runner instances that have gone the way a runner is meant to go: removed
\* from the registry, under the key of its own event's task, by a handler
\* whose event brought the task to its end.
Retired ==
  {hdel[h][2] : h \in {g \in Handles : hdel[g][1] = hev[g]}} \ {NoRunner}

\* The runner instances of task t that exist: the registered one, and those
\* constructed for t and neither retired nor thrown away.  An instance that a
\* handler of another task's event has removed from the registry exists: the
\* handlers launched with it go on using it.
Instances(t) ==
  ({runners[t]} \ {NoRunner}) \cup
  {r \in Handles : hev[r] = t /\ hrun[r] = r /\ r \notin Retired /\ ~Discarded(r)}

\* C9: there is at most one runner instance per task identifier, and of two
\* deliveries of one task the later one is given the instance the earlier one
\* constructed as long as that instance exists: events of a new task received
\* back to back cause one construction and one init call, not two.
C9_OneRunnerPerTask ==
  /\ \A t \in Tasks : Cardinality(Instances(t)) <= 1
  /\ \A h1, h2 \in Handles :
       (/\ h1 < h2
        /\ Received(h1)
        /\ hev[h2] = hev[h1]
        /\ hrun[h1] = h1
        /\ h1 \in Instances(hev[h1])) => hrun[h2] = h1

\* C10: stop() changes nothing on an instance that is not running, and a
\* second stop() changes nothing the first one has not changed and does not
\* cancel the task group again.
C10_StopIdempotent ==
  /\ lpc = "stopped" => StopResult(Life) = Life
  /\ StopResult(StopResult(Life)) = [StopResult(Life) EXCEPT !.cancelled = FALSE]

\* stop() has been called on a running instance whose handlers are in flight.
C10_Witness ==
  /\ stop_event = "set"
  /\ cancel_called
  /\ \E h \in Handles : hpc[h] \in Running

\* C11: once stop() has been called on a running dispatcher, start()
\* eventually exits, whatever its handlers were doing (inside process_event,
\* inside a shielded ack or no_ack, asleep in the backoff), given that every
\* queue call returns or runs into its deadline.
C11_StopLeadsToExit == (stop_event = "set") ~> (lpc = "stopped")

\* stop() has been called while one handler is asleep in the backoff with
\* part of the delay ahead and another is inside a shielded queue call.
C11_Witness ==
  /\ stop_event = "set"
  /\ \E h \in Handles : hpc[h] = "sleep" /\ slept[h] < RetryDelay
  /\ \E h \in Handles : hpc[h] \in {"ack_ok", "ack_err", "noack_unk", "noack_cancel"}

\* C12 as stated: the backoff sleep is cancellable, so once the scope is
\* cancelled a handler asleep in the backoff sleeps no further.
C12_SleepInterrupted ==
  [][\A h \in Handles :
       Cancelling /\ hpc[h] = "sleep" => slept'[h] = slept[h]]_vars

\* C12: the backoff sleep is shielded.  In a cancelled scope a handler on the
\* retryable path is never ended by the cancellation: it is still asleep, or
\* it has slept the whole retry delay and called no_ack once, and ack never.
C12_SleepShielded ==
  \A h \in Handles :
    Cancelling /\ hout[h] = "retry" =>
      /\ hexc[h] # "Cancelled"
      /\ acks[h] = 0
      /\ \/ hpc[h] = "sleep" /\ noacks[h] = 0
         \/ hpc[h] # "sleep" /\ slept[h] >= RetryDelay /\ noacks[h] = 1

\* stop() was called and its cancellation has ended the loop, while a handler
\* is in the middle of its backoff.
C12_Witness ==
  /\ stop_event = "set"
  /\ lpc = "join"
  /\ \E h \in Handles : hpc[h] = "sleep" /\ slept[h] > 0 /\ slept[h] < RetryDelay

\* C13: while a start() call is running, a second start() call on the same
\* instance ends with AssertionError before its first await, so before it
\* receives any event, and writes nothing: stop signal, task group and its
\* cancel scope are what they were, and so are the registry, the loop and the
\* handlers of the first call.
C13_SecondStartRejected ==
  lpc # "stopped" =>
    /\ StartResult(Life) = [stop_event |-> stop_event, tg |-> tg,
                            cancel_called |-> cancel_called,
                            raised |-> "AssertionError"]
    /\ ~ENABLED Start

\* The instance is running: its loop waits for an event, a runner is
\* registered and a handler is in flight.
C13_Witness ==
  /\ lpc = "get"
  /\ ENABLED StartAgain
  /\ \E t \in Tasks : runners[t] # NoRunner
  /\ \E h \in Handles : hpc[h] \in Running

\* The lifecycle as the fields show it: stopped while no start() call is
\* under way; stopping once the stop signal is set, a cancellation is pending
\* or the loop is over; running otherwise.
Phase ==
  IF lpc = "stopped" THEN "stopped"
  ELSE IF stop_event = "set" \/ Cancelling \/ lpc = "join" THEN "stopping"
  ELSE "running"

\* The moves of the lifecycle, and staying put.
PhaseStep(p, q) ==
  \/ p = q
  \/ p = "stopped" /\ q = "running"
  \/ p = "running" /\ q = "stopping"
  \/ p = "stopping" /\ q = "stopped"

\* C14: the lifecycle moves stopped -> running -> stopping -> stopped and in
\* no other way; while a start() call is under way the stop signal and the
\* task group exist; and however the call ends (returning after stop(),
\* raising the cancellation of an outer scope, raising a fault of the loop or
\* of a handler) both are None again, so that the next start() is accepted.
C14_Lifecycle ==
  /\ [](IF lpc = "stopped"
          THEN /\ stop_event = "none"
               /\ tg = "none"
               /\ ~cancel_called
               /\ StartResult(Life).raised = "none"
          ELSE /\ stop_event # "none"
               /\ tg = "open")
  /\ [][PhaseStep(Phase, Phase')]_vars

\* start() runs again after an earlier call that received events has ended.
C14_Witness ==
  /\ lpc = "get"
  /\ stop_event = "unset"
  /\ nextAck > 1
  /\ \A h \in Handles : hev[h] = NoTask

\* C15: get_task_system() raises AssertionError as long as no instance has
\* been installed, and after any sequence of set_task_system calls it returns
\* the instance given to the latest of them: the global holds that instance
\* and no other, and every call gives its caller what the global then tells.
C15_LatestInstalled ==
  /\ [](/\ slot = lastSet
        /\ GetResult(slot) =
             IF lastSet = NoSystem
               THEN [raised |-> "AssertionError", value |-> NoSystem]
               ELSE [raised |-> "none", value |-> lastSet])
  /\ [][\A c \in Callers :
          got'[c] # got[c] =>
            /\ lastSet' = lastSet
            /\ got'[c] = IF lastSet = NoSystem
                           THEN [raised |-> "AssertionError", value |-> NoSystem]
                           ELSE [raised |-> "none", value |-> lastSet]]_vars

\* One caller asked before any instance was installed and got the assertion
\* error, one was given an instance that has been replaced since, and one
\* was given the instance installed last.
C15_Witness ==
  /\ lastSet # NoSystem
  /\ \E c \in Callers : got[c].raised = "AssertionError"
  /\ \E c \in Callers : got[c].value \notin {NoSystem, lastSet}
  /\ \E c \in Callers : got[c].value = lastSet

\* C16: whenever a handler has removed a registry entry (process_event
\* returned finished, or raised a non-retryable error), the entry was the one
\* keyed by the task id of the handler's own event, and the instance removed
\* was the one the handler called process_event on.
C16_DeletesOwnRunner ==
  \A h \in Handles :
    hdel[h] # NoDel => hdel[h] = <<hev[h], hused[h]>>

\* C17: every handler that has called process_event called it on the runner
\* the loop resolved for the handler's own event, whatever the loop has
\* received and resolved between the launch and the call.
C17_ProcessesOwnRunner ==
  \A h \in Handles :
    hpc[h] \notin {"none", "scheduled"} => hused[h] = hrun[h]

\* C18: with at most one unacknowledged delivery per task, once a delivery
\* has brought its task to a terminal outcome (finished, or failed for good)
\* and has been acknowledged, no later delivery of that task is dispatched to
\* the runner that handled it: the loop constructs a new one.
C18_NoDispatchToTerminalRunner ==
  \A g, h \in Handles :
    /\ g < h
    /\ Received(g) /\ hev[h] = hev[g]
    /\ hout[g] \in {"finished", "noretry"}
    /\ acks[g] >= 1
    => hrun[h] # hrun[g]

\* The ack calls the handler of delivery h has made, as its own record shows:
\* one once process_event has returned (and the delete, if any, has found its
\* key) or has raised a non-retryable error.
AcksMade(h) ==
  IF \/ hout[h] \in {"unfinished", "noretry"}
     \/ hout[h] = "finished" /\ hdel[h] # NoDel
    THEN 1 ELSE 0

\* C19: the queue is called for a delivery only by that delivery's own
\* handler, with the handle it was launched with: the ack calls naming a
\* handle are those its handler has made, a handle whose handler has not
\* reached a queue call has been named in none, and no handle is named in
\* more than one no_ack.
C19_OwnHandleOnly ==
  \A h \in Handles :
    /\ acks[h] = AcksMade(h)
    /\ noacks[h] <= 1
    /\ hpc[h] \in {"none", "scheduled", "proc", "sleep", "ack_ok", "ack_err"}
         => noacks[h] = 0

\* An earlier delivery has been acked while the handler of a later one is
\* inside process_event and has made no queue call yet.
C19_Witness ==
  \E g, h \in Handles :
    /\ g < h
    /\ acks[g] = 1 /\ noacks[g] = 0
    /\ hpc[h] = "proc" /\ acks[h] = 0 /\ noacks[h] = 0

\* Task t has reached a terminal outcome: one of its events finished it or
\* failed for good.
Terminal(t) ==
  \E g \in Handles : hev[g] = t /\ hout[g] \in {"finished", "noretry"}

\* start() is shutting down: stop() has been called, a cancellation is
\* pending or the loop is over.
ShuttingDown == Phase = "stopping"

\* C20: from the moment shutdown begins until start() has exited, the
\* registry loses no runner of a task that is not terminal: stop() and the
\* teardown leave it alone, and a handler that still completes removes only
\* the runner of its own, terminal, task.  So what was registered for a
\* non-terminal task is there for the first event after the restart.
C20_RegistrySurvivesShutdown ==
  [][ShuttingDown =>
       \A t \in Tasks :
         runners[t] # NoRunner =>
           runners'[t] = runners[t] \/ Terminal(t)']_vars
====
